---- MODULE Spec2Model ----
(***************************************************************************)
(* Candidate model of the recruiting backend: the constructor that shapes  *)
(* a loosely typed form bag into a Candidate, and Candidate.save(), which  *)
(* builds the Prisma write payload, routes between candidate.create and    *)
(* candidate.update and translates storage errors.                         *)
(***************************************************************************)
EXTENDS Integers, Sequences, FiniteSets, TLC

(***************************************************************************)
(* Bounds of the model.                                                    *)
(***************************************************************************)
MaxLen == 2

MaxSaves == 2

NumProcs == 2

(***************************************************************************)
(* JavaScript values.  Every value carries its type tag, so that           *)
(* undefined, null, the empty string and 0 stay distinct values.           *)
(***************************************************************************)
Undefined == [t |-> "undefined"]

Null == [t |-> "null"]

Str(s) == [t |-> "string", v |-> s]

Num(n) == [t |-> "number", v |-> n]

Date(d) == [t |-> "date", v |-> d]

Arr(s) == [t |-> "array", v |-> s]

\* ToBoolean of a value, as used by `if (x)` and `x || y`.
Truthy(x) ==
    CASE x.t = "undefined" -> FALSE
      [] x.t = "null" -> FALSE
      [] x.t = "number" -> x.v # 0
      [] x.t = "string" -> x.v # ""
      [] OTHER -> TRUE

\* Property read obj.k on a plain object: a missing key reads as undefined.
Get(obj, k) == IF k \in DOMAIN obj THEN obj[k] ELSE Undefined

\* The object literal {}.
EmptyObject == [k \in {} |-> Undefined]

\* Property write obj.k = v.
Put(obj, k, v) == [x \in (DOMAIN obj) \cup {k} |-> IF x = k THEN v ELSE obj[x]]

(***************************************************************************)
(* Form bags handed to the constructor.                                    *)
(***************************************************************************)
\* Sequences over S of length 0..n.
RECURSIVE SeqsUpTo(_, _)
SeqsUpTo(S, n) ==
    IF n = 0 THEN {<< >>}
    ELSE LET shorter == SeqsUpTo(S, n - 1)
         IN  shorter \cup {Append(s, x) : s \in {q \in shorter : Len(q) = n - 1}, x \in S}

\* Education items: a complete one, and one still running (no endDate key)
\* that carries a field Candidate does not know.
HarvardEducation ==
    [institution |-> Str("Harvard University"), title |-> Str("BSc CS"),
     startDate |-> Date("2015-09-01"), endDate |-> Date("2019-06-01")]

StanfordEducation ==
    [institution |-> Str("Stanford"), title |-> Str("PhD in AI"),
     startDate |-> Date("2021-09-01"), grade |-> Str("A")]

EducationItems == {HarvardEducation, StanfordEducation}

\* Work experience items: a complete one, and a current one (no endDate key,
\* description undefined).
TechCorpExperience ==
    [company |-> Str("Tech Corp"), position |-> Str("Software Engineer"),
     description |-> Str("Developed web applications"),
     startDate |-> Date("2019-07-01"), endDate |-> Date("2023-12-31")]

GoogleExperience ==
    [company |-> Str("Google"), position |-> Str("Senior Engineer"),
     description |-> Undefined, startDate |-> Date("2021-07-01")]

WorkExperienceItems == {TechCorpExperience, GoogleExperience}

\* Resume items: a plain one, and one that carries a field Candidate does not
\* know.
PdfResume ==
    [filePath |-> Str("/uploads/resume1.pdf"), fileType |-> Str("application/pdf")]

DocxResume ==
    [filePath |-> Str("/uploads/resume2.docx"), fileType |-> Str("application/docx"),
     size |-> Num(1024)]

ResumeItems == {PdfResume, DocxResume}

\* A collection of the bag: omitted, null, or an array of up to MaxLen items.
CollectionValues(Items) ==
    {Undefined, Null} \cup {Arr(s) : s \in SeqsUpTo(Items, MaxLen)}

IdValues == {Undefined, Num(0), Num(1), Num(42)}

FirstNameValues == {Undefined, Str("John")}

LastNameValues == {Undefined, Str("Doe")}

EmailValues == {Undefined, Str(""), Str("john.doe@example.com")}

PhoneValues == {Undefined, Null, Str(""), Str("+1234567890")}

AddressValues == {Undefined, Null, Str("123 Main St")}

\* A collection of the bag at its simplest: null, empty, or one item.
SimpleValues(Items) == {Null, Arr(<< >>)} \cup {Arr(<<x>>) : x \in Items}

\* Bags that vary the identity and the five scalars, with the three
\* collections all omitted or all holding one item.
ScalarBags ==
    { [id |-> i, firstName |-> f, lastName |-> l, email |-> e, phone |-> ph,
       address |-> a, education |-> c[1], workExperience |-> c[2], resumes |-> c[3]] :
        i \in IdValues, f \in FirstNameValues, l \in LastNameValues,
        e \in EmailValues, ph \in PhoneValues, a \in AddressValues,
        c \in { <<Undefined, Undefined, Undefined>>,
                <<Arr(<<StanfordEducation>>), Arr(<<GoogleExperience>>), Arr(<<PdfResume>>)>> } }

\* The three collections of a bag: one of them ranges over all its values
\* while the other two are null, empty or hold one item.
CollectionTriples ==
    {<<ed, we, re>> : ed \in CollectionValues(EducationItems),
                      we \in SimpleValues(WorkExperienceItems),
                      re \in SimpleValues(ResumeItems)}
    \cup {<<ed, we, re>> : ed \in SimpleValues(EducationItems),
                           we \in CollectionValues(WorkExperienceItems),
                           re \in SimpleValues(ResumeItems)}
    \cup {<<ed, we, re>> : ed \in SimpleValues(EducationItems),
                           we \in SimpleValues(WorkExperienceItems),
                           re \in CollectionValues(ResumeItems)}

\* Bags that vary the three collections, for a new and an existing complete
\* candidate.
CollectionBags ==
    { [id |-> i, firstName |-> Str("John"), lastName |-> Str("Doe"),
       email |-> Str("john.doe@example.com"), phone |-> Str("+1234567890"),
       address |-> Str("123 Main St"),
       education |-> c[1], workExperience |-> c[2], resumes |-> c[3]] :
        i \in {Undefined, Num(42)}, c \in CollectionTriples }

FieldBags == ScalarBags \cup CollectionBags

(***************************************************************************)
(* The storage interface: what candidate.create / candidate.update may     *)
(* settle with.                                                            *)
(***************************************************************************)
\* class PrismaClientKnownRequestError
PrismaClientKnownRequestError(ref, message, code) ==
    [ref |-> ref, name |-> "PrismaClientKnownRequestError", message |-> message,
     code |-> Str(code), errorCode |-> Undefined]

\* class PrismaClientValidationError
PrismaClientValidationError(ref, message) ==
    [ref |-> ref, name |-> "PrismaClientValidationError", message |-> message,
     code |-> Undefined, errorCode |-> Undefined]

\* class PrismaClientInitializationError
PrismaClientInitializationError(ref, message, errorCode) ==
    [ref |-> ref, name |-> "PrismaClientInitializationError", message |-> message,
     code |-> Undefined, errorCode |-> Str(errorCode)]

\* new Error(message): a fresh object, distinct from every storage error.
NewError(message) ==
    [ref |-> "new", name |-> "Error", message |-> message,
     code |-> Undefined, errorCode |-> Undefined]

\* Errors the storage call may reject with: the ones the tests raise, a second
\* connection failure, an initialization error that also carries code P2025,
\* and an error of no Prisma class.
StorageErrors ==
    { PrismaClientKnownRequestError("e1", "Unique constraint failed on the fields: (email)", "P2002"),
      PrismaClientKnownRequestError("e2", "Record to update not found.", "P2025"),
      PrismaClientValidationError("e3", "Missing required field: email"),
      PrismaClientInitializationError("e4", "Cannot reach database server", "P1001"),
      PrismaClientInitializationError("e5", "Authentication failed", "P1000"),
      [PrismaClientInitializationError("e6", "Cannot reach database server", "P1001")
          EXCEPT !.code = Str("P2025")],
      [ref |-> "e7", name |-> "Error", message |-> "socket hang up",
       code |-> Undefined, errorCode |-> Undefined] }

\* Records the storage call may resolve with (createExpectedDatabaseResponse).
StoredRecords ==
    { [ref |-> "r1", id |-> Num(1), email |-> Str("john.doe@example.com"), phone |-> Null],
      [ref |-> "r2", id |-> Num(42), email |-> Str("john.doe@example.com"),
       phone |-> Str("+1234567890")] }

(***************************************************************************)
(* class Candidate                                                         *)
(***************************************************************************)
\* constructor storing null for an optional scalar that is missing or empty.
Candidate_normalizing(data) ==
    [id |-> data.id,
     firstName |-> data.firstName,
     lastName |-> data.lastName,
     email |-> data.email,
     phone |-> IF Truthy(data.phone) THEN data.phone ELSE Null,
     address |-> IF Truthy(data.address) THEN data.address ELSE Null,
     education |-> IF Truthy(data.education) THEN data.education ELSE Arr(<< >>),
     workExperience |-> IF Truthy(data.workExperience) THEN data.workExperience ELSE Arr(<< >>),
     resumes |-> IF Truthy(data.resumes) THEN data.resumes ELSE Arr(<< >>)]

\* constructor copying the collections without the `|| []` default.
Candidate_noDefault(data) ==
    [id |-> data.id,
     firstName |-> data.firstName,
     lastName |-> data.lastName,
     email |-> data.email,
     phone |-> data.phone,
     address |-> data.address,
     education |-> data.education,
     workExperience |-> data.workExperience,
     resumes |-> data.resumes]

\* constructor(data)
Candidate(data) ==
    [id |-> data.id,
     firstName |-> data.firstName,
     lastName |-> data.lastName,
     email |-> data.email,
     phone |-> data.phone,
     address |-> data.address,
     education |-> IF Truthy(data.education) THEN data.education ELSE Arr(<< >>),
     workExperience |-> IF Truthy(data.workExperience) THEN data.workExperience ELSE Arr(<< >>),
     resumes |-> IF Truthy(data.resumes) THEN data.resumes ELSE Arr(<< >>)]

\* educationCreate building the list back to front.
educationCreate_reversed(education) ==
    [i \in 1..Len(education) |->
        [institution |-> Get(education[Len(education) + 1 - i], "institution"),
         title |-> Get(education[Len(education) + 1 - i], "title"),
         startDate |-> Get(education[Len(education) + 1 - i], "startDate"),
         endDate |-> Get(education[Len(education) + 1 - i], "endDate")]]

\* this.education.map(edu => ({...}))
educationCreate(education) ==
    [i \in 1..Len(education) |->
        [institution |-> Get(education[i], "institution"),
         title |-> Get(education[i], "title"),
         startDate |-> Get(education[i], "startDate"),
         endDate |-> Get(education[i], "endDate")]]

\* this.workExperience.map(exp => ({...}))
workExperienceCreate(workExperience) ==
    [i \in 1..Len(workExperience) |->
        [company |-> Get(workExperience[i], "company"),
         position |-> Get(workExperience[i], "position"),
         description |-> Get(workExperience[i], "description"),
         startDate |-> Get(workExperience[i], "startDate"),
         endDate |-> Get(workExperience[i], "endDate")]]

\* resumesCreate copying each item whole instead of its two fields.
resumesCreate_spread(resumes) == [i \in 1..Len(resumes) |-> resumes[i]]

\* this.resumes.map(resume => ({...}))
resumesCreate(resumes) ==
    [i \in 1..Len(resumes) |->
        [filePath |-> Get(resumes[i], "filePath"),
         fileType |-> Get(resumes[i], "fileType")]]

\* scalarData testing the scalars for truthiness instead of `!== undefined`.
scalarData_truthy(this) ==
    LET d1 == IF Truthy(this.firstName) THEN Put(EmptyObject, "firstName", this.firstName) ELSE EmptyObject
        d2 == IF Truthy(this.lastName) THEN Put(d1, "lastName", this.lastName) ELSE d1
        d3 == IF Truthy(this.email) THEN Put(d2, "email", this.email) ELSE d2
        d4 == IF Truthy(this.phone) THEN Put(d3, "phone", this.phone) ELSE d3
        d5 == IF Truthy(this.address) THEN Put(d4, "address", this.address) ELSE d4
    IN  d5

\* scalarData that also copies the identity into the payload.
scalarData_withId(this) ==
    LET d0 == IF this.id # Undefined THEN Put(EmptyObject, "id", this.id) ELSE EmptyObject
        d1 == IF this.firstName # Undefined THEN Put(d0, "firstName", this.firstName) ELSE d0
        d2 == IF this.lastName # Undefined THEN Put(d1, "lastName", this.lastName) ELSE d1
        d3 == IF this.email # Undefined THEN Put(d2, "email", this.email) ELSE d2
        d4 == IF this.phone # Undefined THEN Put(d3, "phone", this.phone) ELSE d3
        d5 == IF this.address # Undefined THEN Put(d4, "address", this.address) ELSE d4
    IN  d5

\* scalarData null-coalescing the two optional scalars instead of omitting them.
scalarData_nullCoalescing(this) ==
    LET d1 == IF this.firstName # Undefined THEN Put(EmptyObject, "firstName", this.firstName) ELSE EmptyObject
        d2 == IF this.lastName # Undefined THEN Put(d1, "lastName", this.lastName) ELSE d1
        d3 == IF this.email # Undefined THEN Put(d2, "email", this.email) ELSE d2
        d4 == Put(d3, "phone", IF Truthy(this.phone) THEN this.phone ELSE Null)
        d5 == Put(d4, "address", IF Truthy(this.address) THEN this.address ELSE Null)
    IN  d5

\* The five conditional scalar assignments of save().
scalarData(this) ==
    LET d1 == IF this.firstName # Undefined THEN Put(EmptyObject, "firstName", this.firstName) ELSE EmptyObject
        d2 == IF this.lastName # Undefined THEN Put(d1, "lastName", this.lastName) ELSE d1
        d3 == IF this.email # Undefined THEN Put(d2, "email", this.email) ELSE d2
        d4 == IF this.phone # Undefined THEN Put(d3, "phone", this.phone) ELSE d3
        d5 == IF this.address # Undefined THEN Put(d4, "address", this.address) ELSE d4
    IN  d5

\* relationData without the length guards.
relationData_unguarded(this, d) ==
    LET d1 == Put(d, "educations", [create |-> educationCreate(this.education.v)])
        d2 == Put(d1, "workExperiences", [create |-> workExperienceCreate(this.workExperience.v)])
        d3 == Put(d2, "resumes", [create |-> resumesCreate(this.resumes.v)])
    IN  d3

\* The three conditional nested-create blocks of save(), added to d.
relationData(this, d) ==
    LET d1 == IF Len(this.education.v) > 0
              THEN Put(d, "educations", [create |-> educationCreate(this.education.v)])
              ELSE d
        d2 == IF Len(this.workExperience.v) > 0
              THEN Put(d1, "workExperiences", [create |-> workExperienceCreate(this.workExperience.v)])
              ELSE d1
        d3 == IF Len(this.resumes.v) > 0
              THEN Put(d2, "resumes", [create |-> resumesCreate(this.resumes.v)])
              ELSE d2
    IN  d3

\* candidateData as it stands when save() reaches `if (this.id)`.
candidateData(this) == relationData(this, scalarData(this))

\* route testing the identity against null only.
route_notNull(this) == IF this.id # Null THEN "update" ELSE "create"

\* `if (this.id)`: the branch save() takes.
route(this) == IF Truthy(this.id) THEN "update" ELSE "create"

\* storageCall whose update writes the scalars only and leaves the stored
\* child rows alone.
storageCall_updateScalarsOnly(this) ==
    IF route(this) = "update"
    THEN [op |-> "update", args |-> [where |-> [id |-> this.id], data |-> scalarData(this)]]
    ELSE [op |-> "create", args |-> [data |-> candidateData(this)]]

\* storageCall whose create fills the missing optional scalars with null.
storageCall_createNullFilled(this) ==
    IF route(this) = "update"
    THEN [op |-> "update", args |-> [where |-> [id |-> this.id], data |-> candidateData(this)]]
    ELSE [op |-> "create",
          args |-> [data |-> relationData(this, scalarData_nullCoalescing(this))]]

\* The storage call save() issues: prisma.candidate.update({where, data}) or
\* prisma.candidate.create({data}).
storageCall(this) ==
    IF route(this) = "update"
    THEN [op |-> "update", args |-> [where |-> [id |-> this.id], data |-> candidateData(this)]]
    ELSE [op |-> "create", args |-> [data |-> candidateData(this)]]

ConnectionMessage ==
    "No se pudo conectar con la base de datos. Por favor, asegurese de que el servidor de base de datos este en ejecucion."

NotFoundMessage ==
    "No se pudo encontrar el registro del candidato con el ID proporcionado."

\* updateCatch testing for P2025 before the connection failure.
updateCatch_notFoundFirst(error) ==
    IF error.code = Str("P2025") THEN NewError(NotFoundMessage)
    ELSE IF error.name = "PrismaClientInitializationError" THEN NewError(ConnectionMessage)
    ELSE error

\* updateCatch copying the code of the storage error onto the error it throws.
updateCatch_leaky(error) ==
    IF error.name = "PrismaClientInitializationError"
    THEN [NewError(ConnectionMessage) EXCEPT !.code = error.code]
    ELSE IF error.code = Str("P2025")
    THEN [NewError(NotFoundMessage) EXCEPT !.code = error.code]
    ELSE error

\* updateCatch without the P2025 case.
updateCatch_noNotFound(error) ==
    IF error.name = "PrismaClientInitializationError" THEN NewError(ConnectionMessage)
    ELSE error

\* catch block around candidate.update: what save() throws for `error`.
updateCatch(error) ==
    IF error.name = "PrismaClientInitializationError" THEN NewError(ConnectionMessage)
    ELSE IF error.code = Str("P2025") THEN NewError(NotFoundMessage)
    ELSE error

\* createCatch with the P2025 case of the update branch.
createCatch_withNotFound(error) ==
    IF error.name = "PrismaClientInitializationError" THEN NewError(ConnectionMessage)
    ELSE IF error.code = Str("P2025") THEN NewError(NotFoundMessage)
    ELSE error

\* createCatch recognising the connection failure by error.code.
createCatch_byCode(error) ==
    IF error.code = Str("P1001") THEN NewError(ConnectionMessage)
    ELSE error

\* createCatch rethrowing a wrapper that keeps the message only.
createCatch_wrapped(error) ==
    IF error.name = "PrismaClientInitializationError" THEN NewError(ConnectionMessage)
    ELSE NewError(error.message)

\* catch block around candidate.create: what save() throws for `error`.
createCatch(error) ==
    IF error.name = "PrismaClientInitializationError" THEN NewError(ConnectionMessage)
    ELSE error

(***************************************************************************)
(* State.                                                                  *)
(***************************************************************************)
Procs == 1..NumProcs

Pending == [status |-> "pending"]

Resolved(v) == [status |-> "resolved", value |-> v]

Rejected(e) == [status |-> "rejected", value |-> e]

NoCandidate == [t |-> "undefined"]

VARIABLES
    pc,         \* pc[p]: where caller p stands: "new", "awaiting" (inside save,
                \* suspended at the await), "settled" (the awaited promise has
                \* settled, save not yet resumed), "done" (save has settled)
    formData,   \* formData[p]: the bag caller p constructed its Candidate from
    candidate,  \* candidate[p]: the Candidate of caller p
    branch,     \* branch[p]: the branch of `if (this.id)` the running save is in
    saves,      \* saves[p]: number of save() invocations started on candidate[p]
    calls,      \* every storage call issued so far, in issue order
    invoked,    \* every save() invocation started so far, in start order
    reply,      \* reply[p]: settlement of the storage call p awaits
    result      \* result[p]: settlement of the promise save() returned to p

vars == <<pc, formData, candidate, branch, saves, calls, invoked, reply, result>>

Init ==
    /\ pc = [p \in Procs |-> "new"]
    /\ formData = [p \in Procs |-> NoCandidate]
    /\ candidate = [p \in Procs |-> NoCandidate]
    /\ branch = [p \in Procs |-> "none"]
    /\ saves = [p \in Procs |-> 0]
    /\ calls = << >>
    /\ invoked = << >>
    /\ reply = [p \in Procs |-> Pending]
    /\ result = [p \in Procs |-> Pending]

(***************************************************************************)
(* Operations.                                                             *)
(***************************************************************************)
\* Construct with a constructor that throws when a required scalar is missing.
Construct_validating(p, data) ==
    /\ pc[p] = "new"
    /\ data.firstName # Undefined /\ data.lastName # Undefined /\ data.email # Undefined
    /\ formData' = [formData EXCEPT ![p] = data]
    /\ candidate' = [candidate EXCEPT ![p] = Candidate(data)]
    /\ pc' = [pc EXCEPT ![p] = "ready"]
    /\ UNCHANGED <<branch, saves, calls, reply, result, invoked>>

\* new Candidate(data)
Construct(p, data) ==
    /\ pc[p] = "new"
    /\ formData' = [formData EXCEPT ![p] = data]
    /\ candidate' = [candidate EXCEPT ![p] = Candidate(data)]
    /\ pc' = [pc EXCEPT ![p] = "ready"]
    /\ UNCHANGED <<branch, saves, calls, reply, result, invoked>>

\* SaveCall remembering the record of the previous save: once a save has
\* resolved, the next one updates the stored row.
SaveCall_cached(p) ==
    LET call == IF result[p].status = "resolved"
                THEN [op |-> "update",
                      args |-> [where |-> [id |-> result[p].value.id],
                                data |-> candidateData(candidate[p])]]
                ELSE storageCall(candidate[p])
    IN  /\ pc[p] \in {"ready", "done"}
        /\ saves[p] < MaxSaves
        /\ saves' = [saves EXCEPT ![p] = @ + 1]
        /\ branch' = [branch EXCEPT ![p] = call.op]
        /\ calls' = Append(calls, [by |-> p, inv |-> saves[p] + 1,
                                   op |-> call.op, args |-> call.args])
        /\ reply' = [reply EXCEPT ![p] = Pending]
        /\ result' = [result EXCEPT ![p] = Pending]
        /\ pc' = [pc EXCEPT ![p] = "awaiting"]
        /\ invoked' = Append(invoked, [by |-> p, inv |-> saves[p] + 1])
        /\ UNCHANGED <<formData, candidate>>

\* SaveCall suspending once between its invocation and the storage call.
SaveCall_yielding(p) ==
    \/ /\ pc[p] \in {"ready", "done"}
       /\ saves[p] < MaxSaves
       /\ saves' = [saves EXCEPT ![p] = @ + 1]
       /\ invoked' = Append(invoked, [by |-> p, inv |-> saves[p] + 1])
       /\ pc' = [pc EXCEPT ![p] = "invoked"]
       /\ UNCHANGED <<formData, candidate, branch, calls, reply, result>>
    \/ /\ pc[p] = "invoked"
       /\ branch' = [branch EXCEPT ![p] = route(candidate[p])]
       /\ calls' = Append(calls, [by |-> p, inv |-> saves[p],
                                  op |-> storageCall(candidate[p]).op,
                                  args |-> storageCall(candidate[p]).args])
       /\ reply' = [reply EXCEPT ![p] = Pending]
       /\ result' = [result EXCEPT ![p] = Pending]
       /\ pc' = [pc EXCEPT ![p] = "awaiting"]
       /\ UNCHANGED <<formData, candidate, saves, invoked>>

\* candidate.save() up to its await: builds candidateData, takes a branch and
\* issues the storage call, all in one synchronous run.
SaveCall(p) ==
    /\ pc[p] \in {"ready", "done"}
    /\ saves[p] < MaxSaves
    /\ saves' = [saves EXCEPT ![p] = @ + 1]
    /\ branch' = [branch EXCEPT ![p] = route(candidate[p])]
    /\ calls' = Append(calls, [by |-> p, inv |-> saves[p] + 1,
                               op |-> storageCall(candidate[p]).op,
                               args |-> storageCall(candidate[p]).args])
    /\ reply' = [reply EXCEPT ![p] = Pending]
    /\ result' = [result EXCEPT ![p] = Pending]
    /\ pc' = [pc EXCEPT ![p] = "awaiting"]
    /\ invoked' = Append(invoked, [by |-> p, inv |-> saves[p] + 1])
    /\ UNCHANGED <<formData, candidate>>

\* The storage interface resolves the call p awaits.
StorageResolve(p, record) ==
    /\ pc[p] = "awaiting"
    /\ reply' = [reply EXCEPT ![p] = Resolved(record)]
    /\ pc' = [pc EXCEPT ![p] = "settled"]
    /\ UNCHANGED <<formData, candidate, branch, saves, calls, result, invoked>>

\* The storage interface rejects the call p awaits.
StorageReject(p, error) ==
    /\ pc[p] = "awaiting"
    /\ reply' = [reply EXCEPT ![p] = Rejected(error)]
    /\ pc' = [pc EXCEPT ![p] = "settled"]
    /\ UNCHANGED <<formData, candidate, branch, saves, calls, result, invoked>>

\* SaveReturn writing the identity of the stored record back into the Candidate.
SaveReturn_writeback(p) ==
    /\ pc[p] = "settled"
    /\ reply[p].status = "resolved"
    /\ candidate' = [candidate EXCEPT ![p].id = reply[p].value.id]
    /\ result' = [result EXCEPT ![p] = Resolved(reply[p].value)]
    /\ pc' = [pc EXCEPT ![p] = "done"]
    /\ UNCHANGED <<formData, branch, saves, calls, reply, invoked>>

\* SaveReturn resolving with the record kept in one slot shared by all callers.
SaveReturn_shared(p) ==
    /\ pc[p] = "settled"
    /\ reply[p].status = "resolved"
    /\ result' = [result EXCEPT ![p] =
                    Resolved(reply[CHOOSE q \in Procs : reply[q].status = "resolved"].value)]
    /\ pc' = [pc EXCEPT ![p] = "done"]
    /\ UNCHANGED <<formData, candidate, branch, saves, calls, reply, invoked>>

\* SaveReturn resolving with the payload merged over the stored record.
SaveReturn_merged(p) ==
    /\ pc[p] = "settled"
    /\ reply[p].status = "resolved"
    /\ result' = [result EXCEPT ![p] =
                    Resolved([reply[p].value EXCEPT !.email = candidate[p].email])]
    /\ pc' = [pc EXCEPT ![p] = "done"]
    /\ UNCHANGED <<formData, candidate, branch, saves, calls, reply, invoked>>

\* save() resumes after a resolved await: `return await ...` / `return result`.
SaveReturn(p) ==
    /\ pc[p] = "settled"
    /\ reply[p].status = "resolved"
    /\ result' = [result EXCEPT ![p] = Resolved(reply[p].value)]
    /\ pc' = [pc EXCEPT ![p] = "done"]
    /\ UNCHANGED <<formData, candidate, branch, saves, calls, reply, invoked>>

\* SaveCatch awaiting the storage call again instead of throwing.
SaveCatch_reawait(p) ==
    /\ pc[p] = "settled"
    /\ reply[p].status = "rejected"
    /\ reply' = [reply EXCEPT ![p] = Pending]
    /\ pc' = [pc EXCEPT ![p] = "awaiting"]
    /\ UNCHANGED <<formData, candidate, branch, saves, calls, invoked, result>>

\* SaveCatch falling back to the other operation when the first one failed.
SaveCatch_fallback(p) ==
    /\ pc[p] = "settled"
    /\ reply[p].status = "rejected"
    /\ calls' = Append(calls, [by |-> p, inv |-> saves[p],
                               op |-> IF branch[p] = "update" THEN "create" ELSE "update",
                               args |-> IF branch[p] = "update"
                                        THEN [data |-> candidateData(candidate[p])]
                                        ELSE [where |-> [id |-> candidate[p].id],
                                              data |-> candidateData(candidate[p])]])
    /\ result' = [result EXCEPT ![p] =
                    Rejected(IF branch[p] = "update"
                             THEN updateCatch(reply[p].value)
                             ELSE createCatch(reply[p].value))]
    /\ pc' = [pc EXCEPT ![p] = "done"]
    /\ UNCHANGED <<formData, candidate, branch, saves, reply, invoked>>

\* SaveCatch swallowing the failure: save() resolves with null.
SaveCatch_swallow(p) ==
    /\ pc[p] = "settled"
    /\ reply[p].status = "rejected"
    /\ result' = [result EXCEPT ![p] = Resolved(Null)]
    /\ pc' = [pc EXCEPT ![p] = "done"]
    /\ UNCHANGED <<formData, candidate, branch, saves, calls, reply, invoked>>

\* SaveCatch issuing the storage call once more before it throws.
SaveCatch_retry(p) ==
    /\ pc[p] = "settled"
    /\ reply[p].status = "rejected"
    /\ calls' = Append(calls, [by |-> p, inv |-> saves[p],
                               op |-> storageCall(candidate[p]).op,
                               args |-> storageCall(candidate[p]).args])
    /\ result' = [result EXCEPT ![p] =
                    Rejected(IF branch[p] = "update"
                             THEN updateCatch(reply[p].value)
                             ELSE createCatch(reply[p].value))]
    /\ pc' = [pc EXCEPT ![p] = "done"]
    /\ UNCHANGED <<formData, candidate, branch, saves, reply, invoked>>

\* save() resumes after a rejected await, in the catch block of its branch.
SaveCatch(p) ==
    /\ pc[p] = "settled"
    /\ reply[p].status = "rejected"
    /\ result' = [result EXCEPT ![p] =
                    Rejected(IF branch[p] = "update"
                             THEN updateCatch(reply[p].value)
                             ELSE createCatch(reply[p].value))]
    /\ pc' = [pc EXCEPT ![p] = "done"]
    /\ UNCHANGED <<formData, candidate, branch, saves, calls, reply, invoked>>

\* One caller constructing a Candidate and saving it, possibly repeatedly.
Next ==
    \/ \E data \in FieldBags : Construct(1, data)
    \/ SaveCall(1)
    \/ \E record \in StoredRecords : StorageResolve(1, record)
    \/ \E error \in StorageErrors : StorageReject(1, error)
    \/ SaveReturn(1)
    \/ SaveCatch(1)

Spec == Init /\ [][Next]_vars

\* Bags of the concurrent callers: complete and minimal candidates, new and
\* existing, told apart by their email.
ConcBags ==
    { [id |-> Undefined, firstName |-> Str("John"), lastName |-> Str("Doe"),
       email |-> Str("user1@example.com"), phone |-> Str("+1234567890"),
       address |-> Str("123 Main St"), education |-> Arr(<<HarvardEducation>>),
       workExperience |-> Arr(<<TechCorpExperience>>), resumes |-> Arr(<<PdfResume>>)],
      [id |-> Undefined, firstName |-> Str("Jane"), lastName |-> Str("Smith"),
       email |-> Str("user2@example.com"), phone |-> Undefined,
       address |-> Undefined, education |-> Undefined,
       workExperience |-> Undefined, resumes |-> Undefined],
      [id |-> Num(42), firstName |-> Str("John"), lastName |-> Str("Doe"),
       email |-> Str("user3@example.com"), phone |-> Null,
       address |-> Str("123 Main St"), education |-> Arr(<<StanfordEducation, HarvardEducation>>),
       workExperience |-> Arr(<< >>), resumes |-> Undefined],
      [id |-> Num(42), firstName |-> Str("Jane"), lastName |-> Undefined,
       email |-> Str("user4@example.com"), phone |-> Undefined,
       address |-> Undefined, education |-> Undefined,
       workExperience |-> Arr(<<GoogleExperience>>), resumes |-> Undefined] }

\* Errors the storage call rejects the concurrent callers with.
ConcErrors == {e \in StorageErrors : e.ref \in {"e2", "e4"}}

\* Several callers, each constructing its own Candidate and saving it once,
\* their storage calls settling in any order.
NextConc ==
    \E p \in Procs :
        \/ \E data \in ConcBags : Construct(p, data)
        \/ (saves[p] = 0 /\ SaveCall(p))
        \/ \E record \in StoredRecords : StorageResolve(p, record)
        \/ \E error \in ConcErrors : StorageReject(p, error)
        \/ SaveReturn(p)
        \/ SaveCatch(p)

SpecConc == Init /\ [][NextConc]_vars

\* The storage interface settles the call p awaits, one way or the other.
StorageSettle(p) ==
    \/ \E record \in StoredRecords : StorageResolve(p, record)
    \/ \E error \in ConcErrors : StorageReject(p, error)

\* Bags of the callers whose saves are followed to their end: a new and an
\* existing candidate.
LiveBags ==
    {b \in ConcBags : b.email \in {Str("user1@example.com"), Str("user3@example.com")}}

\* Several callers, each saving its own Candidate once; the storage interface
\* settles each call one way or the other.
NextLive ==
    \E p \in Procs :
        \/ \E data \in LiveBags : Construct(p, data)
        \/ (saves[p] = 0 /\ SaveCall(p))
        \/ StorageSettle(p)
        \/ SaveReturn(p)
        \/ SaveCatch(p)

\* Scheduling: a storage call that stays pending is eventually settled by the
\* storage interface, and a save() whose awaited promise has settled is
\* resumed by the job queue.
Fairness ==
    \A p \in Procs :
        /\ WF_vars(StorageSettle(p))
        /\ WF_vars(SaveReturn(p))
        /\ WF_vars(SaveCatch(p))

SpecLive == Init /\ [][NextLive]_vars /\ Fairness

(***************************************************************************)
(* Properties of save().                                                   *)
(***************************************************************************)
\* Callers whose Candidate has a save() invocation that issued its call.
InSave(p) == pc[p] \in {"awaiting", "settled", "done"}

\* The storage calls issued by the k-th save() invocation of caller p.
CallsOf(p, k) == SelectSeq(calls, LAMBDA c : c.by = p /\ c.inv = k)

\* The storage calls issued by the running (or last) save() of caller p.
CurrentCalls(p) == CallsOf(p, saves[p])

\* The payload (`data`) of a storage call.
PayloadOf(c) == c.args.data

ScalarFields == {"firstName", "lastName", "email", "phone", "address"}

Collections == {"education", "workExperience", "resumes"}

\* The payload key of the relation a collection is written to.
RelationKey(coll) ==
    CASE coll = "education" -> "educations"
      [] coll = "workExperience" -> "workExperiences"
      [] coll = "resumes" -> "resumes"

\* The fields of a nested-create item of a collection.
ItemFields(coll) ==
    CASE coll = "education" -> {"institution", "title", "startDate", "endDate"}
      [] coll = "workExperience" -> {"company", "position", "description", "startDate", "endDate"}
      [] coll = "resumes" -> {"filePath", "fileType"}

\* Error categories: a connection/initialization failure, and a
\* record-not-found failure (code P2025, not a connection failure).
IsConnectionFailure(e) == e.name = "PrismaClientInitializationError"

IsRecordNotFound(e) == e.code = Str("P2025") /\ ~IsConnectionFailure(e)

\* C1: whenever the identity of the Candidate is present (any integer), a
\* save() invocation has issued exactly one storage call, an update whose
\* where-clause is that identity, and no create.
C1_IdentityPresentUpdates ==
    \A p \in Procs :
        (InSave(p) /\ candidate[p].id.t = "number") =>
            /\ Len(CurrentCalls(p)) = 1
            /\ CurrentCalls(p)[1].op = "update"
            /\ CurrentCalls(p)[1].args.where = [id |-> candidate[p].id]

\* C2: whenever the identity of the Candidate is absent, a save() invocation
\* has issued exactly one storage call, a create, and no update.
C2_IdentityAbsentCreates ==
    \A p \in Procs :
        (InSave(p) /\ candidate[p].id = Undefined) =>
            /\ Len(CurrentCalls(p)) = 1
            /\ CurrentCalls(p)[1].op = "create"

C2_Witness ==
    \E p \in Procs :
        /\ pc[p] = "done"
        /\ candidate[p].id = Undefined
        /\ Len(calls) > 0
        /\ calls[Len(calls)].op = "create"

\* C3: the payload of every storage call holds a scalar key exactly when the
\* scalar is not undefined on the Candidate, with the Candidate's value; a
\* phone or address the form bag never set is no key of the payload.
C3_ScalarKeysIffPresent ==
    \A i \in 1..Len(calls) :
        LET this == candidate[calls[i].by]
            data == PayloadOf(calls[i])
        IN  /\ \A f \in ScalarFields :
                /\ (f \in DOMAIN data) <=> (this[f] # Undefined)
                /\ (f \in DOMAIN data) => (data[f] = this[f])
            /\ \A f \in {"phone", "address"} :
                (formData[calls[i].by][f] = Undefined) => (f \notin DOMAIN data)

C3_Witness ==
    \E i \in 1..Len(calls) :
        /\ candidate[calls[i].by].phone = Undefined
        /\ candidate[calls[i].by].address = Null
        /\ candidate[calls[i].by].email = Str("")
        /\ candidate[calls[i].by].lastName = Undefined
        /\ DOMAIN PayloadOf(calls[i]) = {"firstName", "email", "address"}

\* C4: the payload of every storage call, create or update, has no key for
\* the relation of a collection that is empty on the Candidate.
C4_EmptyCollectionNoKey ==
    \A i \in 1..Len(calls) :
        \A coll \in Collections :
            (Len(candidate[calls[i].by][coll].v) = 0) =>
                (RelationKey(coll) \notin DOMAIN PayloadOf(calls[i]))

C4_Witness ==
    \E i \in 1..Len(calls) :
        /\ calls[i].op = "update"
        /\ Len(candidate[calls[i].by].education.v) = 0
        /\ formData[calls[i].by].education = Arr(<< >>)
        /\ Len(candidate[calls[i].by].resumes.v) > 0
        /\ "educations" \notin DOMAIN PayloadOf(calls[i])
        /\ "resumes" \in DOMAIN PayloadOf(calls[i])

\* C5: for a non-empty collection the payload holds, under the relation key,
\* a mapping whose only key is create and whose value lists one item per item
\* of the collection, in the same order, with the same field values.
C5_NestedCreateMirrorsCollection ==
    \A i \in 1..Len(calls) :
        \A coll \in Collections :
            LET src == candidate[calls[i].by][coll].v
                data == PayloadOf(calls[i])
            IN  (Len(src) > 0) =>
                    /\ RelationKey(coll) \in DOMAIN data
                    /\ DOMAIN data[RelationKey(coll)] = {"create"}
                    /\ Len(data[RelationKey(coll)].create) = Len(src)
                    /\ \A j \in 1..Len(src) :
                        \A f \in ItemFields(coll) :
                            Get(data[RelationKey(coll)].create[j], f) = Get(src[j], f)

C5_Witness ==
    \E i \in 1..Len(calls) :
        LET src == candidate[calls[i].by].education.v
        IN  /\ Len(src) = 2
            /\ src[1] # src[2]
            /\ "endDate" \notin DOMAIN src[1]
            /\ PayloadOf(calls[i]).educations.create[2].institution = src[2].institution
            /\ PayloadOf(calls[i]).educations.create[1].endDate = Undefined

\* C6: when the storage call rejected with a connection/initialization
\* failure, save() has rejected with a fresh error of the one fixed
\* connection message, on either branch and for every Candidate.
C6_ConnectionFailureFixedMessage ==
    \A p \in Procs :
        (pc[p] = "done" /\ reply[p].status = "rejected"
            /\ IsConnectionFailure(reply[p].value)) =>
            /\ result[p].status = "rejected"
            /\ result[p].value.message = ConnectionMessage

C6_Witness ==
    \E p \in Procs :
        /\ pc[p] = "done"
        /\ branch[p] = "create"
        /\ reply[p].status = "rejected"
        /\ reply[p].value.errorCode = Str("P1000")
        /\ result[p].value.message = ConnectionMessage

\* C7: when save() took the update branch and the update rejected with a
\* record-not-found failure (code P2025), save() has rejected with the fixed
\* record-not-found message, whatever the identity and the Candidate.
C7_NotFoundFixedMessage ==
    \A p \in Procs :
        (pc[p] = "done" /\ branch[p] = "update" /\ reply[p].status = "rejected"
            /\ IsRecordNotFound(reply[p].value)) =>
            /\ result[p].status = "rejected"
            /\ result[p].value.message = NotFoundMessage

C7_Witness ==
    \E p \in Procs :
        /\ pc[p] = "done"
        /\ branch[p] = "update"
        /\ candidate[p].id = Num(1)
        /\ reply[p].status = "rejected"
        /\ reply[p].value.name = "PrismaClientKnownRequestError"
        /\ reply[p].value.code = Str("P2025")
        /\ result[p].value.message = NotFoundMessage

\* C8: when the storage call rejected with an error that is neither a
\* connection failure nor, on the update branch, one with code P2025, save()
\* has rejected with that very error object: same identity, message and code.
C8_OtherErrorsRethrown ==
    \A p \in Procs :
        (pc[p] = "done" /\ reply[p].status = "rejected"
            /\ ~IsConnectionFailure(reply[p].value)
            /\ ~(branch[p] = "update" /\ reply[p].value.code = Str("P2025"))) =>
            result[p] = Rejected(reply[p].value)

C8_Witness ==
    \E p \in Procs :
        /\ pc[p] = "done"
        /\ branch[p] = "create"
        /\ reply[p].status = "rejected"
        /\ reply[p].value.code = Str("P2002")
        /\ result[p].status = "rejected"
        /\ result[p].value.ref = reply[p].value.ref
        /\ result[p].value.code = Str("P2002")

\* C9: when the storage call resolved, save() has resolved with the very
\* record the storage interface returned, on either branch.
C9_ResolvesWithStoredRecord ==
    \A p \in Procs :
        (pc[p] = "done" /\ reply[p].status = "resolved") =>
            result[p] = Resolved(reply[p].value)

C9_Witness ==
    \E p \in Procs :
        /\ pc[p] = "done"
        /\ branch[p] = "update"
        /\ reply[p].status = "resolved"
        /\ result[p].status = "resolved"
        /\ result[p].value.email # candidate[p].email

\* C10: every save() invocation, running or finished, resolved or rejected,
\* has issued exactly one storage call; no failure is followed by a retry.
C10_OneStorageCallPerSave ==
    /\ \A p \in Procs : \A k \in 1..saves[p] : Len(CallsOf(p, k)) = 1
    /\ \A i \in 1..Len(calls) : calls[i].inv \in 1..saves[calls[i].by]

C10_Witness ==
    \E p \in Procs :
        /\ pc[p] = "done"
        /\ saves[p] = 2
        /\ reply[p].status = "rejected"
        /\ result[p].status = "rejected"
        /\ Len(calls) = 2

\* The errors save() itself may create in place of a storage error.
NormalizedErrors ==
    { [ref |-> "new", name |-> "Error", message |-> m, code |-> Undefined,
       errorCode |-> Undefined] : m \in {ConnectionMessage, NotFoundMessage} }

\* C11: save() has resolved exactly when its storage call resolved and has
\* rejected exactly when its storage call rejected; it stays pending until
\* then; and the error it rejects with is the storage error itself or one
\* direct translation of it, made by save().
C11_SettlesAsStorageCall ==
    \A p \in Procs :
        /\ (pc[p] = "done") =>
            /\ result[p].status = reply[p].status
            /\ (result[p].status = "rejected") =>
                (result[p].value = reply[p].value \/ result[p].value \in NormalizedErrors)
        /\ (pc[p] \in {"awaiting", "settled"}) => (result[p] = Pending)

C11_Witness ==
    \E p \in Procs :
        /\ pc[p] = "done"
        /\ reply[p].status = "rejected"
        /\ reply[p].value.name = "PrismaClientValidationError"
        /\ result[p].status = "rejected"

\* C12: with several save() invocations in flight, in every interleaving, n
\* invocations have issued n storage calls, every call carries the scalars and
\* collections of its own caller's Candidate, and every finished invocation
\* has settled with the outcome of its own storage call.
C12_ConcurrentSavesIndependent ==
    /\ \A p \in Procs : Len(SelectSeq(calls, LAMBDA c : c.by = p)) = saves[p]
    /\ \A i \in 1..Len(calls) :
        LET this == candidate[calls[i].by]
            data == PayloadOf(calls[i])
        IN  /\ \A f \in ScalarFields : Get(data, f) = this[f]
            /\ \A coll \in Collections :
                IF Len(this[coll].v) = 0
                THEN RelationKey(coll) \notin DOMAIN data
                ELSE Len(data[RelationKey(coll)].create) = Len(this[coll].v)
            /\ (calls[i].op = "update") => (calls[i].args.where.id = this.id)
    /\ \A p \in Procs :
        (pc[p] = "done") =>
            /\ result[p].status = reply[p].status
            /\ (reply[p].status = "resolved") => (result[p].value = reply[p].value)
            /\ (reply[p].status = "rejected") =>
                \/ result[p].value = reply[p].value
                \/ /\ IsConnectionFailure(reply[p].value)
                   /\ result[p].value.message = ConnectionMessage
                \/ /\ reply[p].value.code = Str("P2025")
                   /\ result[p].value.message = NotFoundMessage

C12_Witness ==
    \E p, q \in Procs :
        /\ p # q
        /\ pc[p] = "done" /\ pc[q] = "done"
        /\ candidate[p].email # candidate[q].email
        /\ calls[1].by = p /\ calls[2].by = q
        /\ result[q].status = "resolved" /\ result[p].status = "resolved"
        /\ result[p].value # result[q].value
        /\ result[q].value.ref = "r1"

\* C13: the Candidate constructed from a form bag reads back the identity and
\* the five scalars of the bag as they are (an absent scalar reads back
\* absent; null and the empty string are kept), and every collection supplied
\* as an array reads back as that array: same items, same order, same item
\* fields, a missing endDate still missing.
C13_ConstructionRoundTrip ==
    \A p \in Procs :
        (pc[p] # "new") =>
            /\ \A f \in {"id"} \cup ScalarFields : candidate[p][f] = formData[p][f]
            /\ \A coll \in Collections :
                (formData[p][coll].t = "array") =>
                    /\ Len(candidate[p][coll].v) = Len(formData[p][coll].v)
                    /\ \A j \in 1..Len(formData[p][coll].v) :
                        candidate[p][coll].v[j] = formData[p][coll].v[j]

C13_Witness ==
    \E p \in Procs :
        /\ pc[p] = "ready"
        /\ formData[p].phone = Undefined
        /\ formData[p].email = Str("")
        /\ formData[p].address = Null
        /\ formData[p].education = Arr(<<StanfordEducation>>)
        /\ candidate[p].phone = Undefined
        /\ "endDate" \notin DOMAIN candidate[p].education.v[1]

\* C14: once constructed, from a bag whose collections are supplied, omitted
\* or null, and through any number of save() invocations, each of the three
\* collections of the Candidate is an array, possibly empty.
C14_CollectionsAlwaysArrays ==
    \A p \in Procs :
        (pc[p] # "new") =>
            \A coll \in Collections : candidate[p][coll].t = "array"

C14_Witness ==
    \E p \in Procs :
        /\ pc[p] = "done"
        /\ saves[p] = 2
        /\ formData[p].education = Null
        /\ formData[p].resumes = Undefined
        /\ candidate[p].education = Arr(<< >>)
        /\ candidate[p].resumes = Arr(<< >>)

\* C15: no step of save() changes the Candidate: identity, scalars and
\* collections of a constructed Candidate stay as they are, also when an
\* insert resolves with a record that carries a storage-assigned identity.
C15_SaveLeavesCandidate ==
    [][\A p \in Procs : (pc[p] # "new") => (candidate'[p] = candidate[p])]_vars

C15_Witness ==
    \E p \in Procs :
        /\ pc[p] = "done"
        /\ branch[p] = "create"
        /\ result[p].status = "resolved"
        /\ result[p].value.id = Num(1)
        /\ candidate[p].id = Undefined

\* C16: successive save() invocations on one Candidate all issue the same
\* storage call: same operation, same where-clause, same payload, whatever
\* the earlier invocations settled with.
C16_SuccessiveSavesAlike ==
    \A i, j \in 1..Len(calls) :
        (calls[i].by = calls[j].by) =>
            /\ calls[i].op = calls[j].op
            /\ calls[i].args = calls[j].args

C16_Witness ==
    \E p \in Procs :
        /\ pc[p] = "awaiting"
        /\ candidate[p].id = Undefined
        /\ Len(calls) = 2
        /\ calls[1].by = p /\ calls[2].by = p
        /\ calls[1].op = "create" /\ calls[2].op = "create"

RequiredFields == {"firstName", "lastName", "email"}

\* The required scalars a form bag leaves out.
MissingRequired(data) == {f \in RequiredFields : data[f] = Undefined}

\* C17: the constructor accepts every form bag, also one that leaves out
\* required scalars, and leaves those scalars absent on the Candidate; save()
\* on such a Candidate still issues its one storage call, with a payload that
\* omits the absent keys, and rejects with the very validation error the
\* storage interface reports.
C17_NoValidationBeforeStorage ==
    /\ (\A q \in Procs : pc[q] = "new") =>
        \A p \in Procs : \A data \in FieldBags : ENABLED Construct(p, data)
    /\ \A p \in Procs :
        (pc[p] # "new") =>
            /\ \A f \in MissingRequired(formData[p]) : candidate[p][f] = Undefined
            /\ (InSave(p) /\ MissingRequired(formData[p]) # {}) =>
                /\ Len(CurrentCalls(p)) = 1
                /\ DOMAIN PayloadOf(CurrentCalls(p)[1]) \cap MissingRequired(formData[p]) = {}
            /\ (pc[p] = "done" /\ MissingRequired(formData[p]) # {}
                    /\ reply[p].status = "rejected"
                    /\ reply[p].value.name = "PrismaClientValidationError") =>
                result[p] = Rejected(reply[p].value)

C17_Witness ==
    \E p \in Procs :
        /\ pc[p] = "done"
        /\ formData[p].firstName = Str("John")
        /\ MissingRequired(formData[p]) = {"lastName", "email"}
        /\ branch[p] = "create"
        /\ reply[p].status = "rejected"
        /\ reply[p].value.message = "Missing required field: email"
        /\ result[p].value.name = "PrismaClientValidationError"

\* C18: the error save() throws in place of a connection failure or of a
\* record-not-found failure is a fresh Error that holds the fixed message and
\* nothing of the storage error: not its message, not its code or errorCode,
\* no reference to it; storage errors of one category give equal errors.
C18_NormalizedErrorLeaksNothing ==
    \A p \in Procs :
        (pc[p] = "done" /\ reply[p].status = "rejected"
            /\ (IsConnectionFailure(reply[p].value)
                \/ (branch[p] = "update" /\ reply[p].value.code = Str("P2025")))) =>
            /\ result[p].status = "rejected"
            /\ DOMAIN result[p].value = {"ref", "name", "message", "code", "errorCode"}
            /\ result[p].value.ref = "new"
            /\ result[p].value.name = "Error"
            /\ result[p].value.code = Undefined
            /\ result[p].value.errorCode = Undefined
            /\ result[p].value.message =
                (IF IsConnectionFailure(reply[p].value) THEN ConnectionMessage ELSE NotFoundMessage)
            /\ result[p].value.message # reply[p].value.message

C18_Witness ==
    \E p \in Procs :
        /\ pc[p] = "done"
        /\ branch[p] = "update"
        /\ reply[p].status = "rejected"
        /\ reply[p].value.ref = "e6"
        /\ reply[p].value.code = Str("P2025")
        /\ result[p].value.code = Undefined
        /\ result[p].value.errorCode = Undefined

\* A Candidate that has the given identity and nothing else.
BareCandidate(id) ==
    [id |-> id, firstName |-> Undefined, lastName |-> Undefined, email |-> Undefined,
     phone |-> Undefined, address |-> Undefined, education |-> Arr(<< >>),
     workExperience |-> Arr(<< >>), resumes |-> Arr(<< >>)]

\* C19: the operation of a save() invocation is the one the identity alone
\* selects (the one a Candidate with that identity and no other field would
\* get), it is the branch the invocation stays in, and the invocation issues
\* no second call of the other operation after the first one failed.
C19_RouteFromIdentityOnce ==
    \A p \in Procs :
        InSave(p) =>
            /\ branch[p] = storageCall(BareCandidate(candidate[p].id)).op
            /\ \A i \in 1..Len(calls) : (calls[i].by = p) => (calls[i].op = branch[p])
            /\ Len(CurrentCalls(p)) = 1

C19_Witness ==
    \E p \in Procs :
        /\ pc[p] = "done"
        /\ branch[p] = "update"
        /\ candidate[p].email = Undefined
        /\ Len(candidate[p].resumes.v) > 0
        /\ reply[p].status = "rejected"
        /\ reply[p].value.ref = "e2"
        /\ Len(calls) = 1
        /\ calls[1].op = "update"

\* C20: the keys of the payload of a storage call are exactly the scalars that
\* are not undefined on the Candidate and the relation keys of its non-empty
\* collections; id is never a key of the payload, and on an update it is the
\* where-clause that holds it.
C20_PayloadKeySet ==
    \A i \in 1..Len(calls) :
        LET this == candidate[calls[i].by]
        IN  /\ DOMAIN PayloadOf(calls[i]) =
                {f \in ScalarFields : this[f] # Undefined}
                \cup {RelationKey(coll) : coll \in {c \in Collections : Len(this[c].v) > 0}}
            /\ "id" \notin DOMAIN PayloadOf(calls[i])
            /\ (calls[i].op = "update") =>
                (DOMAIN calls[i].args = {"where", "data"} /\ calls[i].args.where = [id |-> this.id])
            /\ (calls[i].op = "create") => (DOMAIN calls[i].args = {"data"})

C20_Witness ==
    \E i \in 1..Len(calls) :
        /\ calls[i].op = "update"
        /\ candidate[calls[i].by].id = Num(42)
        /\ calls[i].args.where.id = Num(42)
        /\ DOMAIN PayloadOf(calls[i]) = {"firstName", "lastName", "email"}

\* The nested-create item save() is to build from a source item of a
\* collection: the item fields of the collection, each read from the source.
ProjectedItem(coll, item) == [f \in ItemFields(coll) |-> Get(item, f)]

\* C21: an update call carries, for every non-empty collection of the
\* Candidate, the nested block {create: [...]} with all items of the
\* collection; the block is the same in every update of that Candidate,
\* whatever records earlier saves returned, and has no key but create.
C21_UpdateCarriesWholeCollections ==
    \A i \in 1..Len(calls) :
        (calls[i].op = "update") =>
            \A coll \in Collections :
                LET src == candidate[calls[i].by][coll].v
                    data == PayloadOf(calls[i])
                IN  (Len(src) > 0) =>
                        /\ RelationKey(coll) \in DOMAIN data
                        /\ data[RelationKey(coll)] =
                            [create |-> [j \in 1..Len(src) |-> ProjectedItem(coll, src[j])]]

C21_Witness ==
    \E p \in Procs :
        /\ pc[p] = "awaiting"
        /\ Len(calls) = 2
        /\ calls[1].op = "update" /\ calls[2].op = "update"
        /\ Len(candidate[p].education.v) = 2
        /\ Len(candidate[p].resumes.v) = 1
        /\ Len(PayloadOf(calls[2]).educations.create) = 2
        /\ Len(PayloadOf(calls[2]).resumes.create) = 1
        /\ PayloadOf(calls[1]) = PayloadOf(calls[2])

\* C22: a scalar the Candidate holds as the empty string is a key of the
\* payload with the empty string as value, and phone or address is written as
\* null exactly when the Candidate holds null for it.
C22_EmptyStringAndNullKept ==
    \A i \in 1..Len(calls) :
        LET this == candidate[calls[i].by]
            data == PayloadOf(calls[i])
        IN  /\ \A f \in ScalarFields :
                (this[f] = Str("")) => (f \in DOMAIN data /\ data[f] = Str(""))
            /\ \A f \in {"phone", "address"} :
                (f \in DOMAIN data /\ data[f] = Null) <=> (this[f] = Null)

C22_Witness ==
    \E i \in 1..Len(calls) :
        /\ candidate[calls[i].by].email = Str("")
        /\ candidate[calls[i].by].phone = Str("")
        /\ candidate[calls[i].by].address = Null
        /\ PayloadOf(calls[i]).email = Str("")
        /\ PayloadOf(calls[i]).phone = Str("")
        /\ PayloadOf(calls[i]).address = Null

\* C23: every item of a nested-create list has exactly the item fields of its
\* collection, each with the value of the source item at the same position
\* (undefined when the source lacks it); no other field of the source item is
\* copied, and an item without endDate keeps its place.
C23_ItemsAreProjections ==
    \A i \in 1..Len(calls) :
        \A coll \in Collections :
            LET src == candidate[calls[i].by][coll].v
                data == PayloadOf(calls[i])
            IN  (Len(src) > 0) =>
                    /\ Len(data[RelationKey(coll)].create) = Len(src)
                    /\ \A j \in 1..Len(src) :
                        /\ DOMAIN data[RelationKey(coll)].create[j] = ItemFields(coll)
                        /\ \A f \in ItemFields(coll) :
                            data[RelationKey(coll)].create[j][f] = Get(src[j], f)

C23_Witness ==
    \E i \in 1..Len(calls) :
        LET src == candidate[calls[i].by].education.v
            out == PayloadOf(calls[i]).educations.create
        IN  /\ Len(src) = 2
            /\ src[1] = StanfordEducation
            /\ src[2] = HarvardEducation
            /\ "grade" \notin DOMAIN out[1]
            /\ out[1].endDate = Undefined
            /\ out[2].institution = Str("Harvard University")

\* The Candidate that differs from `this` in identity only: with an identity
\* when `this` has none, without one when `this` has one.
Counterpart(this) ==
    [this EXCEPT !.id = IF this.id = Undefined THEN Num(42) ELSE Undefined]

\* C25: the payload of the storage call of a Candidate equals the payload of
\* the call a Candidate differing in identity only gets: what is passed to
\* create as data is what is passed to update as data.
C25_PayloadIndependentOfRoute ==
    \A i \in 1..Len(calls) :
        PayloadOf(calls[i]) = storageCall(Counterpart(candidate[calls[i].by])).args.data

C25_Witness ==
    \E i \in 1..Len(calls) :
        /\ calls[i].op = "create"
        /\ candidate[calls[i].by].id = Undefined
        /\ storageCall(Counterpart(candidate[calls[i].by])).op = "update"
        /\ candidate[calls[i].by].phone = Undefined
        /\ Len(candidate[calls[i].by].resumes.v) > 0
        /\ DOMAIN PayloadOf(calls[i]) =
            DOMAIN storageCall(Counterpart(candidate[calls[i].by])).args.data

\* C26: when save() took the create branch and the create rejected with a
\* record-not-found error (code P2025), save() has rejected with that very
\* error, not with the fixed record-not-found message.
C26_NotFoundOnCreateRethrown ==
    \A p \in Procs :
        (pc[p] = "done" /\ branch[p] = "create" /\ reply[p].status = "rejected"
            /\ IsRecordNotFound(reply[p].value)) =>
            /\ result[p] = Rejected(reply[p].value)
            /\ result[p].value.message # NotFoundMessage

C26_Witness ==
    \E p \in Procs :
        /\ pc[p] = "done"
        /\ branch[p] = "create"
        /\ reply[p].status = "rejected"
        /\ reply[p].value.ref = "e2"
        /\ result[p].value.ref = "e2"
        /\ result[p].value.code = Str("P2025")

\* C28: when save() took the update branch and the update rejected with an
\* initialization error that also carries code P2025, save() has rejected
\* with the fixed connection message, not with the record-not-found message.
C28_ConnectionCheckFirst ==
    \A p \in Procs :
        (pc[p] = "done" /\ branch[p] = "update" /\ reply[p].status = "rejected"
            /\ reply[p].value.name = "PrismaClientInitializationError"
            /\ reply[p].value.code = Str("P2025")) =>
            /\ result[p].status = "rejected"
            /\ result[p].value.message = ConnectionMessage
            /\ result[p].value.message # NotFoundMessage

C28_Witness ==
    \E p \in Procs :
        /\ pc[p] = "done"
        /\ branch[p] = "update"
        /\ reply[p].status = "rejected"
        /\ reply[p].value.name = "PrismaClientInitializationError"
        /\ reply[p].value.code = Str("P2025")
        /\ result[p].value.message = ConnectionMessage

\* A step that takes nothing back: a save() that awaits its storage call
\* stays at the await until the call settles, and no issued call is withdrawn.
NoCancellationStep ==
    /\ \A p \in Procs :
        (pc[p] = "awaiting") => (pc'[p] \in {"awaiting", "settled"})
    /\ Len(calls') >= Len(calls)
    /\ SubSeq(calls', 1, Len(calls)) = calls

\* C24: under weak fairness of the storage interface and of the resumption
\* of save(), a save() whose storage call has settled eventually settles
\* itself, a save() that awaits its storage call eventually settles, and no
\* step cancels: an awaiting save() only ever moves on by its call settling,
\* and an issued call is never withdrawn.
C24_SaveEventuallySettles ==
    /\ \A p \in Procs : (pc[p] = "settled") ~> (pc[p] = "done" /\ result[p] # Pending)
    /\ \A p \in Procs : (pc[p] = "awaiting") ~> (pc[p] = "done" /\ result[p] # Pending)
    /\ [][NoCancellationStep]_vars

C24_Witness ==
    \E p, q \in Procs :
        /\ p # q
        /\ pc[p] = "done"
        /\ reply[p].status = "rejected"
        /\ result[p].status = "rejected"
        /\ pc[q] = "done"
        /\ result[q].status = "resolved"

\* C27: the i-th storage call issued is the call of the i-th save()
\* invocation started, and every started invocation has issued its call:
\* there is no state between the start of save() and its storage call.
C27_CallsInInvocationOrder ==
    /\ Len(calls) = Len(invoked)
    /\ \A i \in 1..Len(calls) :
        /\ calls[i].by = invoked[i].by
        /\ calls[i].inv = invoked[i].inv

C27_Witness ==
    \E p, q \in Procs :
        /\ p # q
        /\ pc[p] = "awaiting" /\ pc[q] = "awaiting"
        /\ Len(calls) = 2
        /\ invoked[1].by = q /\ invoked[2].by = p
        /\ q > p
        /\ calls[1].by = q /\ calls[2].by = p

====
